---- MODULE Spec2Model ----
(***************************************************************************)
(* The two service-worker scripts of the repository:                       *)
(*   "static"  = src/static/service-worker.js  (5 assets, skipWaiting,     *)
(*               activate listener, try/catch around the push parse, tag)  *)
(*   "unnamed" = src/unnamed/part_000          (3 assets, no skipWaiting,  *)
(*               no activate listener, bare push parse, no tag)            *)
(* Each listener is one action for its synchronous body and one action per *)
(* promise it leaves pending (cache match, network fetch, addAll, claim,   *)
(* showNotification, openWindow).                                          *)
(***************************************************************************)
EXTENDS Integers, Sequences, FiniteSets, TLC

VARIABLES
    variant,          \* which of the two scripts is the registered worker
    gen,              \* number of the newest worker instance (0: none yet)
    wstate,           \* lifecycle state of the newest worker instance
    activeGen,        \* instance that is the registration's active worker (0: none)
    controller,       \* instance controlling the open page (0: uncontrolled)
    skipWaitingFlag,  \* skip-waiting flag of the newest instance
    installLifetime,  \* promise the install listener passed to waitUntil
    assetFetch,       \* addAll's request per asset: "none" | "pending" | "ok"
    installNet,       \* network requests addAll issued per asset, this install
    claimLifetime,    \* promise the activate listener passed to waitUntil
    cache,            \* the "whosout-v1" bucket: request key -> stored response
    fetches,          \* the fetch events dispatched so far, in dispatch order
    failedGens,       \* instances with an asset request of addAll that failed
    activatedGens,    \* instances that reached the activated state
    pushes,           \* the push events dispatched so far, in dispatch order
    displayed,        \* notifications currently displayed
    clock,            \* Date.now()
    clicks            \* the notificationclick events dispatched so far

cacheVars == <<variant, gen, wstate, activeGen, controller, skipWaitingFlag,
               installLifetime, assetFetch, installNet, claimLifetime, cache,
               fetches, failedGens, activatedGens>>
pushVars == <<pushes, displayed, clock, clicks>>
vars == <<variant, gen, wstate, activeGen, controller, skipWaitingFlag,
          installLifetime, assetFetch, installNet, claimLifetime, cache,
          fetches, failedGens, activatedGens, pushes, displayed, clock, clicks>>

\* ------------------------------------------------------------------ bounds
MaxGen == 2
MaxFetch == 2
MaxPush == 2
MaxClock == 1
MaxClick == 1
MaxEvents == 3

\* --------------------------------------------------------------- constants
Variants == {"static", "unnamed"}

CACHE_NAME == "whosout-v1"

\* The array literal handed to cache.addAll.
AssetList(v) ==
    IF v = "static"
    THEN {"/", "/index.html", "/manifest.json", "/icon-192.png", "/icon-512.png"}
    ELSE {"/", "/index.html", "/manifest.json"}

AllAssets == AssetList("static") \cup AssetList("unnamed")

\* Requests a page can issue: an asset of both lists, an asset of one list
\* only, and a path of neither list.
RequestPaths == {"/", "/icon-192.png", "/api/whosout"}

\* What the transport can report for one request.
NetOutcomes == {"ok", "notok", "error"}

Undefined == [kind |-> "undefined", url |-> "", status |-> 0]

NetResult(p, o) ==
    IF o = "error"
    THEN [kind |-> "error", url |-> p, status |-> 0]
    ELSE [kind |-> "response", url |-> p, status |-> IF o = "ok" THEN 200 ELSE 404]

EmptyCache == [p \in {} |-> Undefined]

\* ------------------------------------------------------------ install
\* Mutant: the call to skipWaiting is missing.
CallsSkipWaitingNever(v) == FALSE

\* self.skipWaiting() is called by the static script only.
CallsSkipWaiting(v) == v = "static"

\* Mutant: the batch put leaves out the root document.
AddAllStoreWithoutRoot(c, list) ==
    [p \in (DOMAIN c) \cup (list \ {"/"}) |->
        IF p \in list THEN NetResult(p, "ok") ELSE c[p]]

\* addAll's batch put: every response of the list is stored in one step.
AddAllStore(c, list) ==
    [p \in (DOMAIN c) \cup list |->
        IF p \in list THEN NetResult(p, "ok") ELSE c[p]]

\* addAll can store once every request of the list has an ok response.
AddAllReady(af, list) == \A p \in list : af[p] = "ok"

\* Mutant: a catch on the chain swallows addAll's rejection.
WaitUntilOutcomeSwallowed(addAllOutcome) == "resolved"

\* The promise handed to event.waitUntil is the open/addAll chain itself, with
\* no catch: it settles as addAll settles.
WaitUntilOutcome(addAllOutcome) == addAllOutcome

NoAssetFetch == [p \in AllAssets |-> "none"]
NoInstallNet == [p \in AllAssets |-> 0]

\* install listener: waitUntil(caches.open(..).then(cache => cache.addAll([..])))
\* and, in the static script, skipWaiting().  Dispatched to a new worker
\* instance: the first registration, a re-registration after a failed
\* install, or an update of the activated worker.
Install ==
    /\ wstate \in {"none", "redundant", "activated"}
    /\ gen < MaxGen
    /\ gen' = gen + 1
    /\ wstate' = "installing"
    /\ installLifetime' = "pending"
    /\ assetFetch' = [p \in AllAssets |->
                        IF p \in AssetList(variant) THEN "pending" ELSE "none"]
    /\ installNet' = [p \in AllAssets |->
                        IF p \in AssetList(variant) THEN 1 ELSE 0]
    /\ skipWaitingFlag' = CallsSkipWaiting(variant)
    /\ claimLifetime' = "none"
    /\ UNCHANGED <<variant, activeGen, controller, cache, fetches, failedGens,
                   activatedGens>>
    /\ UNCHANGED pushVars

\* Mutant: each response is put into the bucket as it arrives.
AssetFetchSettlePut(p, o) ==
    /\ installLifetime = "pending"
    /\ assetFetch[p] = "pending"
    /\ IF o = "ok"
       THEN /\ assetFetch' = [assetFetch EXCEPT ![p] = "ok"]
            /\ installLifetime' = installLifetime
            /\ cache' = [q \in (DOMAIN cache) \cup {p} |->
                            IF q = p THEN NetResult(p, "ok") ELSE cache[q]]
       ELSE /\ assetFetch' = NoAssetFetch
            /\ installLifetime' = "rejected"
            /\ cache' = cache
    /\ failedGens' = IF o = "ok" THEN failedGens ELSE failedGens \cup {gen}
    /\ UNCHANGED <<variant, gen, wstate, activeGen, controller, skipWaitingFlag,
                   installNet, claimLifetime, fetches, activatedGens>>
    /\ UNCHANGED pushVars

\* One request of addAll settles.  A network error or a non-ok response
\* rejects addAll at once, and with it the promise given to waitUntil.
AssetFetchSettle(p, o) ==
    /\ installLifetime = "pending"
    /\ assetFetch[p] = "pending"
    /\ IF o = "ok"
       THEN /\ assetFetch' = [assetFetch EXCEPT ![p] = "ok"]
            /\ installLifetime' = installLifetime
       ELSE /\ assetFetch' = NoAssetFetch
            /\ installLifetime' = WaitUntilOutcome("rejected")
    /\ failedGens' = IF o = "ok" THEN failedGens ELSE failedGens \cup {gen}
    /\ UNCHANGED <<variant, gen, wstate, activeGen, controller, skipWaitingFlag,
                   installNet, claimLifetime, cache, fetches, activatedGens>>
    /\ UNCHANGED pushVars

\* addAll stores the responses and resolves.
AddAllResolve ==
    /\ installLifetime = "pending"
    /\ AddAllReady(assetFetch, AssetList(variant))
    /\ cache' = AddAllStore(cache, AssetList(variant))
    /\ assetFetch' = NoAssetFetch
    /\ installLifetime' = WaitUntilOutcome("resolved")
    /\ UNCHANGED <<variant, gen, wstate, activeGen, controller, skipWaitingFlag,
                   installNet, claimLifetime, fetches, failedGens, activatedGens>>
    /\ UNCHANGED pushVars

\* The lifetime promise of the install event has settled: the instance is
\* installed, or redundant when the promise rejected.
InstallSettled ==
    /\ wstate = "installing"
    /\ installLifetime \in {"resolved", "rejected"}
    /\ wstate' = IF installLifetime = "resolved" THEN "installed" ELSE "redundant"
    /\ UNCHANGED <<variant, gen, activeGen, controller, skipWaitingFlag,
                   installLifetime, assetFetch, installNet, claimLifetime, cache,
                   fetches, failedGens, activatedGens>>
    /\ UNCHANGED pushVars

\* ------------------------------------------------------------ activate
\* The static script registers an activate listener, the other does not.
HasActivateListener(v) == v = "static"

\* An installed instance leaves the waiting state when there is no active
\* worker, when the active worker controls no page, or when its skip-waiting
\* flag is set.
MayActivate == activeGen = 0 \/ controller # activeGen \/ skipWaitingFlag

\* The instance becomes the active worker and the activate event is
\* dispatched: event.waitUntil(self.clients.claim()) in the static script.
Activate ==
    /\ wstate = "installed"
    /\ MayActivate
    /\ wstate' = "activating"
    /\ activeGen' = gen
    /\ controller' = IF controller # 0 THEN gen ELSE 0
    /\ claimLifetime' = IF HasActivateListener(variant) THEN "pending" ELSE "none"
    /\ UNCHANGED <<variant, gen, skipWaitingFlag, installLifetime, assetFetch,
                   installNet, cache, fetches, failedGens, activatedGens>>
    /\ UNCHANGED pushVars

\* clients.claim() settles: the open page is controlled by this instance.
ClaimSettle ==
    /\ wstate = "activating"
    /\ claimLifetime = "pending"
    /\ claimLifetime' = "settled"
    /\ controller' = gen
    /\ UNCHANGED <<variant, gen, wstate, activeGen, skipWaitingFlag,
                   installLifetime, assetFetch, installNet, cache, fetches,
                   failedGens, activatedGens>>
    /\ UNCHANGED pushVars

\* The lifetime of the activate event is over: the instance is activated.
Activated ==
    /\ wstate = "activating"
    /\ claimLifetime # "pending"
    /\ wstate' = "activated"
    /\ activatedGens' = activatedGens \cup {gen}
    /\ UNCHANGED <<variant, gen, activeGen, controller, skipWaitingFlag,
                   installLifetime, assetFetch, installNet, claimLifetime, cache,
                   fetches, failedGens>>
    /\ UNCHANGED pushVars

\* A page of the scope is loaded (or reloaded): the active worker controls it.
OpenClient ==
    /\ activeGen # 0
    /\ controller # activeGen
    /\ controller' = activeGen
    /\ UNCHANGED <<variant, gen, wstate, activeGen, skipWaitingFlag,
                   installLifetime, assetFetch, installNet, claimLifetime, cache,
                   fetches, failedGens, activatedGens>>
    /\ UNCHANGED pushVars

\* Every page the active worker controls is closed.
CloseClients ==
    /\ controller # 0
    /\ controller' = 0
    /\ UNCHANGED <<variant, gen, wstate, activeGen, skipWaitingFlag,
                   installLifetime, assetFetch, installNet, claimLifetime, cache,
                   fetches, failedGens, activatedGens>>
    /\ UNCHANGED pushVars

\* Functional events (fetch, push, notificationclick) go to the active
\* worker once it is activated; an older active instance keeps serving while
\* a newer one installs.
ActiveReady == activeGen # 0 /\ (activeGen = gen => wstate = "activated")

\* -------------------------------------------------------------- fetch
\* caches.match(request): the stored response, or undefined.
CacheMatch(c, req) == IF req \in DOMAIN c THEN c[req] ELSE Undefined

\* Mutant: a miss is answered with the undefined match result.
FallsThroughNever(r) == FALSE

\* Mutant: the network is used whatever the match gave.
FallsThroughAlways(r) == TRUE

\* r || fetch(event.request): the network is used when r is falsy.
FallsThrough(r) == r = Undefined

\* Mutant: a transport failure is replaced by a made-up response.
PassThroughFallback(net) ==
    IF net.kind = "error"
    THEN [kind |-> "response", url |-> net.url, status |-> 503]
    ELSE net

\* What respondWith's promise settles with after the network answered.
PassThrough(net) == net

\* fetch listener, synchronous part:
\* event.respondWith(caches.match(event.request).then(...)).
Fetch(req) ==
    /\ ActiveReady
    /\ Len(fetches) < MaxFetch
    /\ fetches' = Append(fetches,
            [req |-> req, stage |-> "matching", r |-> Undefined, netCalls |-> 0,
             net |-> Undefined, response |-> Undefined])
    /\ UNCHANGED <<variant, gen, wstate, activeGen, controller, skipWaitingFlag,
                   installLifetime, assetFetch, installNet, claimLifetime, cache,
                   failedGens, activatedGens>>
    /\ UNCHANGED pushVars

\* The match promise resolves and the then-callback runs: r || fetch(request).
MatchSettle(i) ==
    /\ i \in 1..Len(fetches)
    /\ fetches[i].stage = "matching"
    /\ LET r == CacheMatch(cache, fetches[i].req) IN
       fetches' = [fetches EXCEPT ![i] =
            IF FallsThrough(r)
            THEN [@ EXCEPT !.stage = "fetching", !.r = r, !.netCalls = @ + 1]
            ELSE [@ EXCEPT !.stage = "done", !.r = r, !.response = r]]
    /\ UNCHANGED <<variant, gen, wstate, activeGen, controller, skipWaitingFlag,
                   installLifetime, assetFetch, installNet, claimLifetime, cache,
                   failedGens, activatedGens>>
    /\ UNCHANGED pushVars

\* The network answers the fall-through request.
NetworkSettle(i, o) ==
    /\ i \in 1..Len(fetches)
    /\ fetches[i].stage = "fetching"
    /\ LET net == NetResult(fetches[i].req, o) IN
       fetches' = [fetches EXCEPT ![i] =
            [@ EXCEPT !.stage = "done", !.net = net, !.response = PassThrough(net)]]
    /\ UNCHANGED <<variant, gen, wstate, activeGen, controller, skipWaitingFlag,
                   installLifetime, assetFetch, installNet, claimLifetime, cache,
                   failedGens, activatedGens>>
    /\ UNCHANGED pushVars

\* --------------------------------------------------------------- push

\* JavaScript values the push listener handles.
Undef == [t |-> "undefined", s |-> ""]
Null == [t |-> "null", s |-> ""]
Str(s) == [t |-> "string", s |-> s]
Num(s) == [t |-> "number", s |-> s]
Obj(title, body) == [t |-> "object", s |-> "", title |-> title, body |-> body]
SyntaxError == [t |-> "SyntaxError", s |-> ""]

\* Push messages: event.data is absent, or carries a text.
NoData == [present |-> FALSE, text |-> ""]
Data(text) == [present |-> TRUE, text |-> text]

PayloadTexts ==
    { "{\"title\":\"Meeting\",\"body\":\"Alice is out\"}",
      "{\"title\":\"\",\"body\":\"\"}",
      "{\"title\":null,\"body\":null}",
      "{}",
      "null",
      "7",
      "Bob is out today",
      "" }

Payloads == {NoData} \cup {Data(x) : x \in PayloadTexts}

\* event.data.json() on each text: the parsed value, or SyntaxError thrown.
JsonParse(text) ==
    CASE text = "{\"title\":\"Meeting\",\"body\":\"Alice is out\"}"
            -> Obj(Str("Meeting"), Str("Alice is out"))
      [] text = "{\"title\":\"\",\"body\":\"\"}" -> Obj(Str(""), Str(""))
      [] text = "{\"title\":null,\"body\":null}" -> Obj(Null, Null)
      [] text = "{}" -> Obj(Undef, Undef)
      [] text = "null" -> Null
      [] text = "7" -> Num("7")
      [] OTHER -> SyntaxError

\* The literal of the source, its typographic apostrophe written in ASCII.
DefaultTitle == "Who's Out"
Icon == "/icon-192.png"

\* Mutant: only null and undefined count as absent (?? in place of ||).
TruthyNullish(v) == v.t \notin {"undefined", "null"}

\* JavaScript truthiness, as || and ?: and && use it.
Truthy(v) ==
    CASE v.t \in {"undefined", "null"} -> FALSE
      [] v.t = "string" -> v.s # ""
      [] v.t = "number" -> v.s # "0"
      [] OTHER -> TRUE

\* Mutant: no default is substituted.
OrLeft(a, b) == a

\* a || b
Or(a, b) == IF Truthy(a) THEN a ELSE b

\* data.title and data.body: a TypeError on null or undefined, undefined on
\* a primitive, the property (or undefined) on an object.
PropThrows(data) == data.t \in {"undefined", "null"}
PropTitle(data) == IF data.t = "object" THEN data.title ELSE Undef
PropBody(data) == IF data.t = "object" THEN data.body ELSE Undef

\* The static script wraps the parse in try/catch, the other does not.
HasTryCatch(v) == v = "static"

\* The static script tags the notification with String(Date.now()).
HasTag(v) == v = "static"

\* String(n) for n >= 0, as the sequence of its decimal digits.
RECURSIVE String(_)
String(n) == IF n < 10 THEN <<n>> ELSE String(n \div 10) \o <<n % 10>>

\* data = event.data ? event.data.json() : {}, with the catch clause of the
\* static script: {title: "Who's Out", body: event.data && event.data.text()}.
\* The result names the value of data, or the exception that escapes.
ParseData(v, payload) ==
    IF ~payload.present
    THEN [threw |-> "none", data |-> Obj(Undef, Undef), jsonCalls |-> 0,
          textCalls |-> 0]
    ELSE LET parsed == JsonParse(payload.text) IN
         IF parsed # SyntaxError
         THEN [threw |-> "none", data |-> parsed, jsonCalls |-> 1, textCalls |-> 0]
         ELSE IF HasTryCatch(v)
              THEN [threw |-> "none",
                    data |-> Obj(Str(DefaultTitle), Str(payload.text)),
                    jsonCalls |-> 1, textCalls |-> 1]
              ELSE [threw |-> "SyntaxError", data |-> Undef, jsonCalls |-> 1,
                    textCalls |-> 0]

\* Mutant: the title of the payload is ignored.
TitleAlwaysDefault(data) == Str(DefaultTitle)

\* const title = data.title || "Who's Out"
Title(data) == Or(PropTitle(data), Str(DefaultTitle))

\* const options = { body: data.body || "", icon, badge [, tag, renotify] }
Options(v, data, now) ==
    [body |-> Or(PropBody(data), Str("")),
     icon |-> Icon,
     badge |-> Icon,
     tag |-> IF HasTag(v) THEN String(now) ELSE <<>>,
     renotify |-> FALSE]

NoOptions == [body |-> Undef, icon |-> "", badge |-> "", tag |-> <<>>,
              renotify |-> FALSE]

\* The whole push listener on one event: what it called and what escaped.
PushHandler(v, payload, now) ==
    LET p == ParseData(v, payload) IN
    IF p.threw # "none"
    THEN [payload |-> payload, jsonCalls |-> p.jsonCalls, textCalls |-> p.textCalls,
          threw |-> p.threw, showCalls |-> 0, title |-> Undef,
          options |-> NoOptions, lifetime |-> "none"]
    ELSE IF PropThrows(p.data)
    THEN [payload |-> payload, jsonCalls |-> p.jsonCalls, textCalls |-> p.textCalls,
          threw |-> "TypeError", showCalls |-> 0, title |-> Undef,
          options |-> NoOptions, lifetime |-> "none"]
    ELSE [payload |-> payload, jsonCalls |-> p.jsonCalls, textCalls |-> p.textCalls,
          threw |-> "none", showCalls |-> 1, title |-> Title(p.data),
          options |-> Options(v, p.data, now), lifetime |-> "pending"]

\* push listener.
Push(payload) ==
    /\ ActiveReady
    /\ Len(pushes) < MaxPush
    /\ pushes' = Append(pushes, PushHandler(variant, payload, clock))
    /\ UNCHANGED <<displayed, clock, clicks>>
    /\ UNCHANGED cacheVars

\* The notifications on display after one more is shown: a notification
\* with a non-empty tag replaces the displayed one of the same tag.
Show(shown, n) ==
    {m \in shown : n.tag = <<>> \/ m.tag # n.tag} \cup {n}

\* showNotification's promise resolves: the notification is on display.
ShowSettle(i) ==
    /\ i \in 1..Len(pushes)
    /\ pushes[i].lifetime = "pending"
    /\ pushes' = [pushes EXCEPT ![i].lifetime = "settled"]
    /\ displayed' = Show(displayed,
            [id |-> i, title |-> pushes[i].title.s, body |-> pushes[i].options.body.s,
             icon |-> pushes[i].options.icon, badge |-> pushes[i].options.badge,
             tag |-> pushes[i].options.tag])
    /\ UNCHANGED <<clock, clicks>>
    /\ UNCHANGED cacheVars

\* Date.now() advances.
Tick ==
    /\ clock < MaxClock
    /\ clock' = clock + 1
    /\ UNCHANGED <<pushes, displayed, clicks>>
    /\ UNCHANGED cacheVars

\* ------------------------------------------------------ notificationclick
\* Mutant: the window is opened before the notification is closed.
ClickEffectsOpenFirst == <<"openWindow", "close">>

\* The calls the listener makes, in order.
ClickEffects == <<"close", "openWindow">>

\* The argument of clients.openWindow.
ClickUrl == "/"

\* What a call sequence does: close() takes the notification off display,
\* every openWindow call leaves one promise pending.
Closes(effects) == \E k \in 1..Len(effects) : effects[k] = "close"
Opens(effects) == Cardinality({k \in 1..Len(effects) : effects[k] = "openWindow"})

\* notificationclick listener: event.notification.close(), then
\* event.waitUntil(clients.openWindow("/")).
NotificationClick(n) ==
    /\ ActiveReady
    /\ n \in displayed
    /\ Len(clicks) < MaxClick
    /\ displayed' = IF Closes(ClickEffects) THEN displayed \ {n} ELSE displayed
    /\ clicks' = Append(clicks,
            [notification |-> n.id, effects |-> ClickEffects, url |-> ClickUrl,
             pendingOpens |-> Opens(ClickEffects), windows |-> 0])
    /\ UNCHANGED <<pushes, clock>>
    /\ UNCHANGED cacheVars

\* clients.openWindow settles: the window is open.
OpenWindowSettle(i) ==
    /\ i \in 1..Len(clicks)
    /\ clicks[i].pendingOpens > 0
    /\ clicks' = [clicks EXCEPT ![i].pendingOpens = @ - 1, ![i].windows = @ + 1]
    /\ UNCHANGED <<pushes, displayed, clock>>
    /\ UNCHANGED cacheVars

\* ---------------------------------------------------------------- specs
Init ==
    /\ variant \in Variants
    /\ gen = 0
    /\ wstate = "none"
    /\ activeGen = 0
    /\ controller = 0
    /\ skipWaitingFlag = FALSE
    /\ installLifetime = "none"
    /\ assetFetch = NoAssetFetch
    /\ installNet = NoInstallNet
    /\ claimLifetime = "none"
    /\ cache = EmptyCache
    /\ fetches = <<>>
    /\ failedGens = {}
    /\ activatedGens = {}
    /\ pushes = <<>>
    /\ displayed = {}
    /\ clock = 0
    /\ clicks = <<>>

NextCache ==
    \/ Install
    \/ \E p \in AllAssets, o \in NetOutcomes : AssetFetchSettle(p, o)
    \/ AddAllResolve
    \/ InstallSettled
    \/ Activate
    \/ ClaimSettle
    \/ Activated
    \/ OpenClient
    \/ CloseClients
    \/ \E req \in RequestPaths : Fetch(req)
    \/ \E i \in 1..MaxFetch : MatchSettle(i)
    \/ \E i \in 1..MaxFetch, o \in NetOutcomes : NetworkSettle(i, o)

SpecCache == Init /\ [][NextCache]_vars

NextPush ==
    \/ \E payload \in Payloads : Push(payload)
    \/ \E i \in 1..MaxPush : ShowSettle(i)
    \/ Tick
    \/ \E n \in displayed : NotificationClick(n)
    \/ \E i \in 1..MaxClick : OpenWindowSettle(i)

\* The state after the first install and activation succeeded.
InitActivated ==
    /\ variant \in Variants
    /\ gen = 1
    /\ wstate = "activated"
    /\ activeGen = 1
    /\ controller = IF HasActivateListener(variant) THEN 1 ELSE 0
    /\ skipWaitingFlag = CallsSkipWaiting(variant)
    /\ installLifetime = "resolved"
    /\ assetFetch = NoAssetFetch
    /\ installNet = [p \in AllAssets |-> IF p \in AssetList(variant) THEN 1 ELSE 0]
    /\ claimLifetime = IF HasActivateListener(variant) THEN "settled" ELSE "none"
    /\ cache = AddAllStore(EmptyCache, AssetList(variant))
    /\ fetches = <<>>
    /\ failedGens = {}
    /\ activatedGens = {1}
    /\ pushes = <<>>
    /\ displayed = {}
    /\ clock = 0
    /\ clicks = <<>>

SpecPush == InitActivated /\ [][NextPush]_vars

\* Every listener of the worker, interleaved.  The combined specification
\* bounds the events dispatched in total and draws its push messages from
\* one message of each kind.
CorePayloads ==
    {NoData, Data("{\"title\":\"Meeting\",\"body\":\"Alice is out\"}"),
     Data("Bob is out today")}

WithinEvents ==
    /\ gen + Len(fetches) + Len(pushes) + Len(clicks) <= MaxEvents
    /\ \A i \in 1..Len(pushes) : pushes[i].payload \in CorePayloads

Next ==
    \/ Install /\ WithinEvents'
    \/ \E p \in AllAssets, o \in NetOutcomes : AssetFetchSettle(p, o)
    \/ AddAllResolve
    \/ InstallSettled
    \/ Activate
    \/ ClaimSettle
    \/ Activated
    \/ OpenClient
    \/ CloseClients
    \/ \E req \in RequestPaths : Fetch(req) /\ WithinEvents'
    \/ \E i \in 1..MaxFetch : MatchSettle(i)
    \/ \E i \in 1..MaxFetch, o \in NetOutcomes : NetworkSettle(i, o)
    \/ \E payload \in CorePayloads : Push(payload) /\ WithinEvents'
    \/ \E i \in 1..MaxPush : ShowSettle(i)
    \/ Tick
    \/ \E n \in displayed : NotificationClick(n) /\ WithinEvents'
    \/ \E i \in 1..MaxClick : OpenWindowSettle(i)

Spec == Init /\ [][Next]_vars

\* ============================================================== claims
Assets == AssetList(variant)

\* C1: the install step resolves only once every asset of the variant's list
\* is stored, and from then on a fetch event for an asset path is answered
\* with the stored entry and issues no network request.
C1_InstalledAssetsServedFromCache ==
    /\ installLifetime = "resolved" => Assets \subseteq DOMAIN cache
    /\ \A i \in 1..Len(fetches) :
         (activatedGens # {} /\ fetches[i].req \in Assets) =>
            /\ fetches[i].netCalls = 0
            /\ fetches[i].stage # "fetching"
            /\ fetches[i].stage = "done" =>
                 /\ fetches[i].req \in DOMAIN cache
                 /\ fetches[i].response = cache[fetches[i].req]

\* An asset that only the static list names was served from the bucket
\* after the install resolved.
C1_Witness ==
    /\ variant = "static"
    /\ installLifetime = "resolved"
    /\ \E i \in 1..Len(fetches) :
         /\ fetches[i].req = "/icon-192.png"
         /\ fetches[i].stage = "done"
         /\ fetches[i].response = cache["/icon-192.png"]
         /\ fetches[i].netCalls = 0

\* C2: an instance with a failed asset request never becomes installed,
\* active or activated (it ends redundant), also with the skip-waiting flag
\* set, and addAll requests every asset once only.
C2_FailedInstallNeverActivates ==
    /\ failedGens \cap activatedGens = {}
    /\ activeGen \notin failedGens
    /\ gen \in failedGens =>
         /\ wstate \in {"installing", "redundant"}
         /\ installLifetime = "rejected"
    /\ \A p \in AllAssets : installNet[p] <= 1

\* The static script set the skip-waiting flag and its install failed.
C2_Witness ==
    /\ variant = "static"
    /\ skipWaitingFlag
    /\ gen \in failedGens
    /\ wstate = "redundant"

\* C3: a fetch event whose request has an entry in the bucket is answered
\* with that entry, without a network call.
C3_CacheHitNoNetwork ==
    \A i \in 1..Len(fetches) :
        (fetches[i].stage # "matching" /\ fetches[i].req \in DOMAIN cache) =>
            /\ fetches[i].stage = "done"
            /\ fetches[i].r = cache[fetches[i].req]
            /\ fetches[i].response = fetches[i].r
            /\ fetches[i].netCalls = 0

C3_Witness ==
    \E i \in 1..Len(fetches) :
        /\ fetches[i].stage = "done"
        /\ fetches[i].req \in DOMAIN cache
        /\ fetches[i].response = cache[fetches[i].req]

\* C4: a fetch event whose request has no entry makes one network call, is
\* answered with exactly what the transport reported, and leaves the bucket
\* without an entry for the request.
C4_CacheMissOneNetworkCall ==
    \A i \in 1..Len(fetches) :
        (fetches[i].stage # "matching" /\ fetches[i].r = Undefined) =>
            /\ fetches[i].netCalls = 1
            /\ fetches[i].req \notin DOMAIN cache
            /\ fetches[i].stage = "done" =>
                 /\ fetches[i].net \in {NetResult(fetches[i].req, o) : o \in NetOutcomes}
                 /\ fetches[i].response = fetches[i].net

\* Two misses are done: one answered with the transport's failure, one with
\* a response.
C4_Witness ==
    \E i, j \in 1..Len(fetches) :
        /\ fetches[i].stage = "done" /\ fetches[i].r = Undefined
        /\ fetches[i].response.kind = "error"
        /\ fetches[j].stage = "done" /\ fetches[j].r = Undefined
        /\ fetches[j].response.kind = "response"

\* The value event.data.json() gives for the message of push event i.
Parsed(i) == JsonParse(pushes[i].payload.text)

\* The message of push event i parses to an object whose title and body are
\* both strings.
Structured(i) ==
    /\ pushes[i].payload.present
    /\ Parsed(i).t = "object"
    /\ Parsed(i).title.t = "string"
    /\ Parsed(i).body.t = "string"

\* The message of push event i is a text that does not parse.
PlainText(i) == pushes[i].payload.present /\ Parsed(i) = SyntaxError

\* Push event i made one showNotification call with this title and body and
\* the fixed icon and badge.
Notified(i, title, body) ==
    /\ pushes[i].threw = "none"
    /\ pushes[i].showCalls = 1
    /\ pushes[i].title = title
    /\ pushes[i].options.body = body
    /\ pushes[i].options.icon = "/icon-192.png"
    /\ pushes[i].options.badge = "/icon-192.png"

\* C5 as stated: a message with title T and body B, both present, is shown
\* with title T and body B and the fixed icon and badge.
C5_Original ==
    \A i \in 1..Len(pushes) :
        Structured(i) => Notified(i, Parsed(i).title, Parsed(i).body)

\* C5 amended: a message with a non-empty title T and a body B is shown with
\* title T and body B and the fixed icon and badge.
C5_StructuredPayloadShown ==
    \A i \in 1..Len(pushes) :
        (Structured(i) /\ Parsed(i).title.s # "") =>
            Notified(i, Parsed(i).title, Parsed(i).body)

\* The notification "Meeting" / "Alice is out" is on display.
C5_Witness ==
    /\ \E i \in 1..Len(pushes) :
         /\ Structured(i)
         /\ pushes[i].lifetime = "settled"
         /\ pushes[i].title = Str("Meeting")
         /\ pushes[i].options.body = Str("Alice is out")
    /\ \E n \in displayed : n.title = "Meeting" /\ n.body = "Alice is out"

\* C6: a message that is plain text is shown, in either script, with the
\* default title and the text as body.
C6_PlainTextFallback ==
    \A i \in 1..Len(pushes) :
        PlainText(i) =>
            Notified(i, Str("Who's Out"), Str(pushes[i].payload.text))

\* C7: a push event without a message is shown with the default title and
\* the empty body, and neither json() nor text() is called.
C7_NoPayloadDefaults ==
    \A i \in 1..Len(pushes) :
        ~pushes[i].payload.present =>
            /\ Notified(i, Str("Who's Out"), Str(""))
            /\ pushes[i].jsonCalls = 0
            /\ pushes[i].textCalls = 0

C7_Witness ==
    /\ \E i \in 1..Len(pushes) :
         ~pushes[i].payload.present /\ pushes[i].lifetime = "settled"
    /\ \E n \in displayed : n.title = "Who's Out" /\ n.body = ""

\* C8: a notificationclick event closes its notification and then makes one
\* openWindow("/") call; the event lives until that call has settled, when
\* one window is open.
C8_ClickClosesThenOpensRoot ==
    \A i \in 1..Len(clicks) :
        /\ \E j, k \in 1..Len(clicks[i].effects) :
             /\ j < k
             /\ clicks[i].effects[j] = "close"
             /\ clicks[i].effects[k] = "openWindow"
        /\ Opens(clicks[i].effects) = 1
        /\ clicks[i].url = "/"
        /\ \A n \in displayed : n.id # clicks[i].notification
        /\ clicks[i].pendingOpens + clicks[i].windows = 1

\* A click has been handled and its window is open.
C8_Witness ==
    \E i \in 1..Len(clicks) :
        /\ clicks[i].windows = 1
        /\ clicks[i].pendingOpens = 0
        /\ \A n \in displayed : n.id # clicks[i].notification

\* C9: every push event, whatever its message, makes one showNotification
\* call whose promise is passed to waitUntil, and nothing is thrown.
C9_EveryPushNotifies ==
    \A i \in 1..Len(pushes) :
        /\ pushes[i].threw = "none"
        /\ pushes[i].showCalls = 1
        /\ pushes[i].lifetime \in {"pending", "settled"}

\* C10: the keys of the bucket are none or the variant's asset list.
C10_CacheEmptyOrAssetList ==
    DOMAIN cache = {} \/ DOMAIN cache = Assets

\* The bucket holds the list after one install failed and a later one
\* succeeded, and a fetch miss went to the network or a push was shown.
C10_Witness ==
    /\ DOMAIN cache = Assets
    /\ failedGens # {}
    /\ \/ \E i \in 1..Len(fetches) :
            fetches[i].stage = "done" /\ fetches[i].r = Undefined
       \/ \E i \in 1..Len(pushes) : pushes[i].lifetime = "settled"

\* C11: in the script that tags notifications every notification is shown
\* with a tag and renotify false, two push events never give the same tag,
\* and so every notification shown stays on display until it is clicked.
C11_DistinctTags ==
    variant = "static" =>
        /\ \A i \in 1..Len(pushes) :
             pushes[i].showCalls = 1 =>
                /\ pushes[i].options.tag # <<>>
                /\ pushes[i].options.tag \in {String(t) : t \in 0..clock}
                /\ pushes[i].options.renotify = FALSE
        /\ \A i, j \in 1..Len(pushes) :
             (i # j /\ pushes[i].showCalls = 1 /\ pushes[j].showCalls = 1) =>
                pushes[i].options.tag # pushes[j].options.tag
        /\ \A i \in 1..Len(pushes) :
             pushes[i].lifetime = "settled" =>
                \/ \E n \in displayed : n.id = i
                \/ \E k \in 1..Len(clicks) : clicks[k].notification = i

\* The install and activate listeners alone, with the progress the host
\* guarantees: a settled lifetime promise is acted on, an instance that may
\* leave the waiting state is activated, and clients.claim() settles.
NextLifecycle ==
    \/ Install
    \/ \E p \in AllAssets, o \in NetOutcomes : AssetFetchSettle(p, o)
    \/ AddAllResolve
    \/ InstallSettled
    \/ Activate
    \/ ClaimSettle
    \/ Activated
    \/ OpenClient
    \/ CloseClients

SpecLifecycle ==
    /\ Init
    /\ [][NextLifecycle]_vars
    /\ WF_vars(InstallSettled)
    /\ WF_vars(Activate)
    /\ WF_vars(ClaimSettle)
    /\ WF_vars(Activated)

\* The transitions of the worker lifecycle.
LifecycleSteps ==
    { <<"none", "installing">>, <<"installing", "installed">>,
      <<"installing", "redundant">>, <<"installed", "activating">>,
      <<"activating", "activated">>, <<"activated", "installing">>,
      <<"redundant", "installing">> }

\* C12: in the script with skipWaiting and the activate listener an instance
\* whose install resolved is eventually activated and is never held in the
\* waiting state; the activate event lasts until clients.claim() has settled,
\* which makes the instance the controller of the open page; the worker state
\* only moves along the lifecycle.
C12_SkipWaitingActivatesAndClaims ==
    /\ [](variant = "static" =>
            /\ wstate = "installed" => (skipWaitingFlag /\ MayActivate)
            /\ claimLifetime = "pending" => wstate = "activating"
            /\ wstate = "activated" => claimLifetime = "settled")
    /\ \A g \in 1..MaxGen :
         (variant = "static" /\ gen = g /\ installLifetime = "resolved")
            ~> (g \in activatedGens)
    /\ [][variant = "static" =>
            /\ (claimLifetime = "pending" /\ claimLifetime' = "settled") =>
                  controller' = gen
            /\ (wstate' = "activated" /\ wstate # "activated") =>
                  claimLifetime = "settled"
            /\ wstate' # wstate => <<wstate, wstate'>> \in LifecycleSteps]_vars

\* The second instance of the static script was activated and controls the
\* page that the first instance controlled.
C12_Witness ==
    /\ variant = "static"
    /\ gen = 2
    /\ 1 \in activatedGens
    /\ wstate = "activated"
    /\ activeGen = 2
    /\ claimLifetime = "settled"
    /\ controller = 2

\* ---------------------------------------------------------- event lifetime
\* Mutant: openWindow is called without handing its promise to waitUntil.
ExtendedWithoutOpenWindow(listener) ==
    CASE listener = "install" -> {"addAll"}
      [] listener = "activate" -> {"claim"}
      [] listener = "fetch" -> {"match", "fetch"}
      [] listener = "push" -> {"showNotification"}
      [] OTHER -> {}

\* The operations whose promise, or a chain that ends in it, each listener
\* hands to event.waitUntil or event.respondWith.
Extended(listener) ==
    CASE listener = "install" -> {"addAll"}
      [] listener = "activate" -> {"claim"}
      [] listener = "fetch" -> {"match", "fetch"}
      [] listener = "push" -> {"showNotification"}
      [] listener = "notificationclick" -> {"openWindow"}

\* The operations started by a listener that have not settled yet.
InFlight ==
    {<<"install", "addAll">> : p \in {q \in AllAssets : assetFetch[q] = "pending"}}
    \cup {<<"activate", "claim">> : x \in {y \in {claimLifetime} : y = "pending"}}
    \cup {<<"fetch", "match">> :
            i \in {j \in 1..Len(fetches) : fetches[j].stage = "matching"}}
    \cup {<<"fetch", "fetch">> :
            i \in {j \in 1..Len(fetches) : fetches[j].stage = "fetching"}}
    \cup {<<"push", "showNotification">> :
            i \in {j \in 1..Len(pushes) :
                     pushes[j].showCalls > 0 /\ pushes[j].lifetime # "settled"}}
    \cup {<<"notificationclick", "openWindow">> :
            i \in {j \in 1..Len(clicks) : clicks[j].pendingOpens > 0}}

\* The listeners with an event whose lifetime is still extended.
KeptAlive == {e[1] : e \in {f \in InFlight : f[2] \in Extended(f[1])}}

\* No event keeps the worker alive: the host may stop it.
TeardownEligible == KeptAlive = {}

\* C13: every operation in flight belongs to an event whose waitUntil or
\* respondWith promise covers it, so the worker is never eligible for
\* teardown while an operation is in flight.
C13_OperationsCovered ==
    /\ \A e \in InFlight : e[2] \in Extended(e[1])
    /\ TeardownEligible => InFlight = {}

\* An openWindow call is in flight and keeps the worker alive.
C13_Witness ==
    /\ <<"notificationclick", "openWindow">> \in InFlight
    /\ "notificationclick" \in KeptAlive

\* Fetch event i is in one of the two outcomes of the listener: answered
\* with the stored entry and no network call, or a miss with one network call
\* and, once done, the transport's own result.
OneOutcome(i) ==
    \/ /\ fetches[i].r = NetResult(fetches[i].req, "ok")
       /\ fetches[i].stage = "done"
       /\ fetches[i].netCalls = 0
       /\ fetches[i].response = fetches[i].r
    \/ /\ fetches[i].r = Undefined
       /\ fetches[i].netCalls = 1
       /\ fetches[i].stage \in {"fetching", "done"}
       /\ fetches[i].stage = "done" =>
            /\ fetches[i].response = fetches[i].net
            /\ fetches[i].response.kind \in {"response", "error"}
            /\ fetches[i].response.url = fetches[i].req

\* C14: a fetch event never waits for an install (its match can settle in
\* every state), and once matched it is in exactly one outcome, whatever the
\* install does and whatever other fetch events for the same request do; two
\* hits for one request are answered with the same entry.
C14_FetchIndependentOfInstall ==
    /\ \A i \in 1..Len(fetches) :
         IF fetches[i].stage = "matching"
         THEN ENABLED MatchSettle(i)
         ELSE OneOutcome(i)
    /\ \A i, j \in 1..Len(fetches) :
         (/\ fetches[i].req = fetches[j].req
          /\ fetches[i].stage = "done" /\ fetches[j].stage = "done"
          /\ fetches[i].netCalls = 0 /\ fetches[j].netCalls = 0)
            => fetches[i].response = fetches[j].response

\* While the second install is in progress with part of its requests
\* answered, one fetch event for a request is done with the transport's
\* failure and another for the same request is still on the network.
C14_Witness ==
    /\ gen = 2
    /\ wstate = "installing"
    /\ installLifetime = "pending"
    /\ \E p, q \in AllAssets : assetFetch[p] = "ok" /\ assetFetch[q] = "pending"
    /\ \E i, j \in 1..Len(fetches) :
         /\ fetches[i].req = fetches[j].req
         /\ fetches[i].stage = "done"
         /\ fetches[i].response.kind = "error"
         /\ fetches[j].stage = "fetching"

\* What the push listener of script v does with the message of push event i.
HandledBy(v, i) == PushHandler(v, pushes[i].payload, clock)

\* C15: on the same events the two scripts do the same: a fetch event is
\* answered from the bucket's content alone, a push event gives the same
\* showNotification call (title, body, icon, badge) or the same exception in
\* both scripts, and a click has the same effects.
C15_VariantsAgree ==
    /\ \A i \in 1..Len(fetches) :
         fetches[i].stage # "matching" =>
            /\ fetches[i].r = CacheMatch(cache, fetches[i].req)
            /\ fetches[i].netCalls = IF fetches[i].req \in DOMAIN cache THEN 0 ELSE 1
    /\ \A i \in 1..Len(pushes) :
         /\ HandledBy("static", i).threw = HandledBy("unnamed", i).threw
         /\ HandledBy("static", i).showCalls = HandledBy("unnamed", i).showCalls
         /\ HandledBy("static", i).title = HandledBy("unnamed", i).title
         /\ HandledBy("static", i).options.body = HandledBy("unnamed", i).options.body
         /\ HandledBy("static", i).options.icon = HandledBy("unnamed", i).options.icon
         /\ HandledBy("static", i).options.badge = HandledBy("unnamed", i).options.badge
    /\ \A i \in 1..Len(clicks) :
         clicks[i].effects = <<"close", "openWindow">> /\ clicks[i].url = "/"

\* The values a title or body counts as missing or empty with.
Blank == {Undef, Null, Str("")}

\* C16: every showNotification call gets a non-empty string as title and a
\* string as body; a parsed title that is missing or empty gives the default
\* title, a parsed body that is missing or empty gives the empty body, and
\* so does the plain-text fallback on an empty text.
C16_TitleAndBodyDefined ==
    /\ \A i \in 1..Len(pushes) :
         pushes[i].showCalls = 1 =>
            /\ pushes[i].title.t = "string"
            /\ pushes[i].title.s # ""
            /\ pushes[i].options.body.t = "string"
            /\ (Parsed(i).t = "object" /\ Parsed(i).title \in Blank) =>
                  pushes[i].title = Str("Who's Out")
            /\ (Parsed(i).t = "object" /\ Parsed(i).body \in Blank) =>
                  pushes[i].options.body = Str("")
            /\ (PlainText(i) /\ pushes[i].payload.text = "") =>
                  pushes[i].options.body = Str("")
    /\ \A n \in displayed : n.title # ""

\* Shown with the default title and the empty body: a message with empty
\* title and body, and the empty plain text.
C16_Witness ==
    /\ \E i \in 1..Len(pushes) :
         /\ pushes[i].payload.text = "{\"title\":\"\",\"body\":\"\"}"
         /\ pushes[i].lifetime = "settled"
         /\ pushes[i].title = Str("Who's Out")
         /\ pushes[i].options.body = Str("")
    /\ \E j \in 1..Len(pushes) :
         /\ PlainText(j)
         /\ pushes[j].payload.text = ""
         /\ pushes[j].showCalls = 1
         /\ pushes[j].options.body = Str("")

====
